---- MODULE Spec2Model ----
(***************************************************************************)
(* Model of the mars-mission-analyzer (src/src/main.rs): the record parser *)
(* Mission::from_line, the predicates is_valid_security_code and           *)
(* is_comment_or_metadata, the aggregation loop of process_file and the    *)
(* part of main that consumes its result (diagnostics, ranking, output).   *)
(*                                                                         *)
(* Text is modelled as a sequence of one-character strings, so that        *)
(* splitting, trimming, prefix tests, case folding and number parsing are  *)
(* computed character by character as the code computes them.              *)
(*                                                                         *)
(* TLC integers are 32-bit signed, so a u32 is modelled as a pair          *)
(* <<hi, lo>> of 16-bit limbs (value = hi * 65536 + lo).  An f64 is        *)
(* modelled by the exact decimal it denotes (mantissa and power of ten);   *)
(* binary rounding is not modelled.                                        *)
(***************************************************************************)
EXTENDS Integers, Sequences, FiniteSets, TLC

(***************************************************************************)
(* Bounds of the model.                                                    *)
(***************************************************************************)
\* longest input file, in lines
MaxLines == 3
\* largest value of the --top argument
MaxTop == 3

(***************************************************************************)
(* Literals of the program.                                                *)
(***************************************************************************)
s_mars == <<"m", "a", "r", "s">>
s_completed == <<"c", "o", "m", "p", "l", "e", "t", "e", "d">>
p_hash == <<"#">>
p_SYSTEM == <<"S", "Y", "S", "T", "E", "M", ":">>
p_CONFIG == <<"C", "O", "N", "F", "I", "G", ":">>
p_CHECKSUM == <<"C", "H", "E", "C", "K", "S", "U", "M", ":">>
s_inf == <<"i", "n", "f">>
s_infinity == <<"i", "n", "f", "i", "n", "i", "t", "y">>
s_nan == <<"n", "a", "n">>
UpperAZ == <<"A", "B", "C", "D", "E", "F", "G", "H", "I", "J", "K", "L", "M", "N", "O", "P", "Q", "R", "S", "T", "U", "V", "W", "X", "Y", "Z">>
LowerAZ == <<"a", "b", "c", "d", "e", "f", "g", "h", "i", "j", "k", "l", "m", "n", "o", "p", "q", "r", "s", "t", "u", "v", "w", "x", "y", "z">>
Digits09 == <<"0", "1", "2", "3", "4", "5", "6", "7", "8", "9">>
\* the delimiter of Mission::from_line
Delim == "|"
\* number of fields Mission::from_line requires
MinParts == 8
\* one 16-bit limb of a u32
Limb == 65536

(***************************************************************************)
(* Option values: None is the empty sequence, Some(v) the one-element one. *)
(***************************************************************************)
None == <<>>
Some(v) == <<v>>
IsSome(o) == o # <<>>
Unwrap(o) == o[1]

(***************************************************************************)
(* str helpers of the Rust standard library, as the program uses them.     *)
(***************************************************************************)
\* char::is_whitespace on the characters the model's inputs contain
IsWhitespace(c) == c \in {" ", "\t", "\r"}

RECURSIVE trim_start(_)
trim_start(s) ==
  IF s = <<>> THEN s
  ELSE IF IsWhitespace(Head(s)) THEN trim_start(Tail(s)) ELSE s

RECURSIVE trim_end(_)
trim_end(s) ==
  IF s = <<>> THEN s
  ELSE IF IsWhitespace(s[Len(s)]) THEN trim_end(SubSeq(s, 1, Len(s) - 1)) ELSE s

\* str::trim
trim(s) == trim_end(trim_start(s))

\* str::starts_with
starts_with(s, p) == Len(s) >= Len(p) /\ SubSeq(s, 1, Len(p)) = p

\* str::split(delimiter).collect(): scans for the delimiter from `i`, the
\* current segment starting at `start`; always at least one segment
RECURSIVE split_scan(_, _, _, _)
split_scan(s, d, i, start) ==
  IF i > Len(s) THEN <<SubSeq(s, start, Len(s))>>
  ELSE IF s[i] = d
       THEN <<SubSeq(s, start, i - 1)>> \o split_scan(s, d, i + 1, i + 1)
       ELSE split_scan(s, d, i + 1, start)

split(s, d) == split_scan(s, d, 1, 1)

\* u8::to_ascii_lowercase
to_ascii_lowercase(c) ==
  IF \E i \in 1..26 : UpperAZ[i] = c
  THEN LowerAZ[CHOOSE i \in 1..26 : UpperAZ[i] = c]
  ELSE c

\* str::eq_ignore_ascii_case
eq_ignore_ascii_case(a, b) ==
  /\ Len(a) = Len(b)
  /\ \A i \in 1..Len(a) : to_ascii_lowercase(a[i]) = to_ascii_lowercase(b[i])

IsDigit(c) == \E i \in 1..10 : Digits09[i] = c
DigitVal(c) == (CHOOSE i \in 1..10 : Digits09[i] = c) - 1
IsUpper(c) == \E i \in 1..26 : UpperAZ[i] = c

(***************************************************************************)
(* u32 arithmetic on limbs.                                                *)
(***************************************************************************)
U32Zero == <<0, 0>>
\* Ordering::cmp of two u32: -1 (Less), 0 (Equal), 1 (Greater)
u32_cmp(a, b) ==
  IF a[1] < b[1] THEN -1
  ELSE IF a[1] > b[1] THEN 1
  ELSE IF a[2] < b[2] THEN -1
  ELSE IF a[2] > b[2] THEN 1
  ELSE 0

\* checked_mul(10) followed by checked_add(d): None on overflow of 32 bits
u32_push_digit(a, d) ==
  LET lo == a[2] * 10 + d
      hi == a[1] * 10 + (lo \div Limb)
  IN  IF hi >= Limb THEN None ELSE Some(<<hi, lo % Limb>>)

RECURSIVE u32_digits(_, _)
u32_digits(s, acc) ==
  IF s = <<>> THEN Some(acc)
  ELSE IF ~IsDigit(Head(s)) THEN None
  ELSE LET nxt == u32_push_digit(acc, DigitVal(Head(s)))
       IN  IF nxt = None THEN None ELSE u32_digits(Tail(s), Unwrap(nxt))

\* str::parse::<u32>(): empty, a lone sign, a non-digit and an overflow are
\* errors; one leading '+' is accepted, a leading '-' is not
parse_u32(s) ==
  IF s = <<>> THEN None
  ELSE IF Len(s) = 1 /\ Head(s) \in {"+", "-"} THEN None
  ELSE IF Head(s) = "+" THEN u32_digits(Tail(s), U32Zero)
  ELSE u32_digits(s, U32Zero)

(***************************************************************************)
(* str::parse::<f64>().                                                    *)
(***************************************************************************)
RECURSIVE digit_prefix_len(_)
digit_prefix_len(s) ==
  IF s = <<>> \/ ~IsDigit(Head(s)) THEN 0 ELSE 1 + digit_prefix_len(Tail(s))

RECURSIVE dec_val(_, _)
dec_val(s, acc) ==
  IF s = <<>> THEN acc ELSE dec_val(Tail(s), acc * 10 + DigitVal(Head(s)))

RECURSIVE f64_normal(_, _)
f64_normal(m, e) ==
  IF m = 0 THEN <<0, 0>>
  ELSE IF m % 10 = 0 THEN f64_normal(m \div 10, e + 1)
  ELSE <<m, e>>

lower(s) == [i \in 1..Len(s) |-> to_ascii_lowercase(s[i])]

\* the exponent part: empty, or e/E, an optional sign and at least one digit
parse_exponent(s) ==
  IF s = <<>> THEN Some(0)
  ELSE IF Head(s) \notin {"e", "E"} THEN None
  ELSE LET r == Tail(s)
           signed == r # <<>> /\ Head(r) \in {"+", "-"}
           ds == IF signed THEN Tail(r) ELSE r
       IN  IF ds = <<>> \/ digit_prefix_len(ds) # Len(ds) THEN None
           ELSE IF signed /\ Head(r) = "-" THEN Some(0 - dec_val(ds, 0))
           ELSE Some(dec_val(ds, 0))

parse_f64(s) ==
  IF s = <<>> THEN None
  ELSE
    LET signed == Head(s) \in {"+", "-"}
        neg == Head(s) = "-"
        body == IF signed THEN Tail(s) ELSE s
        ni == digit_prefix_len(body)
        r1 == SubSeq(body, ni + 1, Len(body))
        dot == r1 # <<>> /\ Head(r1) = "."
        r1b == IF dot THEN Tail(r1) ELSE r1
        nf == IF dot THEN digit_prefix_len(r1b) ELSE 0
        r2 == SubSeq(r1b, nf + 1, Len(r1b))
        ex == parse_exponent(r2)
        digits == SubSeq(body, 1, ni) \o SubSeq(r1b, 1, nf)
    IN  IF body = <<>> THEN None
        ELSE IF lower(body) \in {s_inf, s_infinity}
          THEN Some([kind |-> "inf", neg |-> neg, num |-> <<0, 0>>])
        ELSE IF lower(body) = s_nan
          THEN Some([kind |-> "nan", neg |-> neg, num |-> <<0, 0>>])
        ELSE IF ni + nf = 0 \/ ex = None THEN None
        ELSE Some([kind |-> "finite", neg |-> neg,
                   num |-> f64_normal(dec_val(digits, 0), Unwrap(ex) - nf)])

(***************************************************************************)
(* Mission::from_line, is_valid_security_code, is_completed_mars_mission   *)
(* and is_comment_or_metadata.                                             *)
(***************************************************************************)
\* from_line taking 0 for a crew size that does not parse
from_line_lenient_crew(line, line_number) ==
  LET parts == split(line, Delim)
  IN  IF Len(parts) < MinParts THEN None
      ELSE
        LET crew_size == parse_u32(trim(parts[5]))
            duration == parse_u32(trim(parts[6]))
            success_rate == parse_f64(trim(parts[7]))
        IN  IF duration = None THEN None
            ELSE IF success_rate = None THEN None
            ELSE Some([date |-> trim(parts[1]),
                       mission_id |-> trim(parts[2]),
                       destination |-> trim(parts[3]),
                       status |-> trim(parts[4]),
                       crew_size |-> IF crew_size = None THEN U32Zero
                                     ELSE Unwrap(crew_size),
                       duration |-> Unwrap(duration),
                       success_rate |-> Unwrap(success_rate),
                       security_code |-> trim(parts[8]),
                       line_number |-> line_number])

from_line(line, line_number) ==
  LET parts == split(line, Delim)
  IN  IF Len(parts) < MinParts THEN None
      ELSE
        LET crew_size == parse_u32(trim(parts[5]))
            duration == parse_u32(trim(parts[6]))
            success_rate == parse_f64(trim(parts[7]))
        IN  IF crew_size = None THEN None
            ELSE IF duration = None THEN None
            ELSE IF success_rate = None THEN None
            ELSE Some([date |-> trim(parts[1]),
                       mission_id |-> trim(parts[2]),
                       destination |-> trim(parts[3]),
                       status |-> trim(parts[4]),
                       crew_size |-> Unwrap(crew_size),
                       duration |-> Unwrap(duration),
                       success_rate |-> Unwrap(success_rate),
                       security_code |-> trim(parts[8]),
                       line_number |-> line_number])

\* The regular expression ^[A-Z]{3}-[0-9]{3}-[A-Z]{3}$ as the sequence of its
\* elements: "^" and "$" are the anchors, "U" is [A-Z], "D" is [0-9] and "-"
\* is the literal hyphen.
SecurityCodeRe ==
  <<"^", "U", "U", "U", "-", "D", "D", "D", "-", "U", "U", "U", "$">>
\* the same expression without the anchor at the end
SecurityCodeReOpenEnd ==
  <<"^", "U", "U", "U", "-", "D", "D", "D", "-", "U", "U", "U">>

\* the character c is in the class (or is the literal) e
re_class(e, c) ==
  IF e = "U" THEN IsUpper(c)
  ELSE IF e = "D" THEN IsDigit(c)
  ELSE c = e

\* the elements of re from the k-th on match s from position i on; without
\* the multi-line flag "^" is the start and "$" the end of the whole text
RECURSIVE re_match_at(_, _, _, _)
re_match_at(re, s, k, i) ==
  IF k > Len(re) THEN TRUE
  ELSE IF re[k] = "^" THEN i = 1 /\ re_match_at(re, s, k + 1, i)
  ELSE IF re[k] = "$" THEN i = Len(s) + 1 /\ re_match_at(re, s, k + 1, i)
  ELSE /\ i <= Len(s)
       /\ re_class(re[k], s[i])
       /\ re_match_at(re, s, k + 1, i + 1)

\* Regex::is_match: a match starting anywhere in the text
is_match(re, s) == \E i \in 1..(Len(s) + 1) : re_match_at(re, s, 1, i)

\* is_valid_security_code with an expression that is not anchored at the end
is_valid_security_code_open_end(m) ==
  is_match(SecurityCodeReOpenEnd, m.security_code)

is_valid_security_code(m) == is_match(SecurityCodeRe, m.security_code)

\* is_completed_mars_mission without the duration condition
is_completed_mars_mission_any_duration(m) ==
  /\ eq_ignore_ascii_case(m.destination, s_mars)
  /\ eq_ignore_ascii_case(m.status, s_completed)
  /\ is_valid_security_code(m)

is_completed_mars_mission(m) ==
  /\ eq_ignore_ascii_case(m.destination, s_mars)
  /\ eq_ignore_ascii_case(m.status, s_completed)
  /\ m.duration # U32Zero
  /\ is_valid_security_code(m)

\* is_comment_or_metadata looking at the line as it is, untrimmed
is_comment_or_metadata_untrimmed(line) ==
  \/ line = <<>>
  \/ starts_with(line, p_hash)
  \/ starts_with(line, p_SYSTEM)
  \/ starts_with(line, p_CONFIG)
  \/ starts_with(line, p_CHECKSUM)

is_comment_or_metadata(line) ==
  LET trimmed == trim(line)
  IN  \/ trimmed = <<>>
      \/ starts_with(trimmed, p_hash)
      \/ starts_with(trimmed, p_SYSTEM)
      \/ starts_with(trimmed, p_CONFIG)
      \/ starts_with(trimmed, p_CHECKSUM)

(***************************************************************************)
(* Input data: field texts and lines the line source can yield.            *)
(***************************************************************************)
d2045 == <<"2", "0", "4", "5">>
d2046 == <<"2", "0", "4", "6">>
d2047 == <<"2", "0", "4", "7">>
dHash == <<"#", "2", "0", "4", "5">>
dSystem == <<"S", "Y", "S", "T", "E", "M", ":", "1">>
dConfig == <<"C", "O", "N", "F", "I", "G", ":", "1">>
dChecksum == <<"C", "H", "E", "C", "K", "S", "U", "M", ":", "1">>
idK1 == <<"K", "1">>
idA1 == <<"A", "1">>
idB2 == <<"B", "2">>
tMars == <<"M", "a", "r", "s">>
tMARS == <<"M", "A", "R", "S">>
tJupiter == <<"J", "u", "p", "i", "t", "e", "r">>
tMarsh == <<"M", "a", "r", "s", "h">>
tCompleted == <<"C", "o", "m", "p", "l", "e", "t", "e", "d">>
tCOMPLETED == <<"C", "O", "M", "P", "L", "E", "T", "E", "D">>
tFailed == <<"F", "a", "i", "l", "e", "d">>
n5 == <<"5">>
n3 == <<"3">>
n4 == <<"4">>
nAbc == <<"a", "b", "c">>
nPlus5 == <<"+", "5">>
nMinus1 == <<"-", "1">>
nPlus == <<"+">>
n387 == <<"3", "8", "7">>
n900 == <<"9", "0", "0">>
n0 == <<"0">>
n00 == <<"0", "0">>
nMaxU32 == <<"4", "2", "9", "4", "9", "6", "7", "2", "9", "5">>
nOverU32 == <<"4", "2", "9", "4", "9", "6", "7", "2", "9", "6">>
n3dot5 == <<"3", ".", "5">>
r98_7 == <<"9", "8", ".", "7">>
r99_0 == <<"9", "9", ".", "0">>
r97_5 == <<"9", "7", ".", "5">>
rInf == <<"i", "n", "f">>
rNaN == <<"N", "a", "N">>
r1e3 == <<"1", "e", "3">>
rDot5 == <<".", "5">>
r5Dot == <<"5", ".">>
rDot == <<".">>
rNeg == <<"-", "0", ".", "5">>
rE == <<"1", "e">>
rInfinity == <<"I", "n", "f", "i", "n", "i", "t", "y">>
r9870e_2 == <<"9", "8", "7", "0", "e", "-", "2">>
cTRX == <<"T", "R", "X", "-", "8", "4", "2", "-", "Y", "H", "G">>
cSTU == <<"S", "T", "U", "-", "9", "0", "1", "-", "F", "G", "H">>
cABC == <<"A", "B", "C", "-", "1", "2", "3", "-", "X", "Y", "Z">>
cLower == <<"t", "r", "x", "-", "8", "4", "2", "-", "y", "h", "g">>
cShort == <<"T", "R", "X", "-", "8", "4", "2", "-", "Y", "H">>
cLong == <<"T", "R", "X", "-", "8", "4", "2", "-", "Y", "H", "G", "G">>
cMid == <<"T", "R", "X", "-", "8", "4", "-", "Y", "H", "G">>
cFirst == <<"T", "X", "-", "8", "4", "2", "-", "Y", "H", "G">>
cNoDash == <<"T", "R", "X", "8", "4", "2", "Y", "H", "G">>
cLetters == <<"T", "R", "X", "-", "A", "B", "C", "-", "Y", "H", "G">>
cINVALID == <<"I", "N", "V", "A", "L", "I", "D">>
tComment == <<"#", " ", "a", "|", "b">>
tSystemLine == <<"S", "Y", "S", "T", "E", "M", ":", " ", "x">>
tConfigLine == <<"C", "O", "N", "F", "I", "G", ":", " ", "v">>
tChecksumLine == <<"C", "H", "E", "C", "K", "S", "U", "M", ":", " ", "1">>
tBlank == <<" ", " ", "\t">>
tIndentComment == <<" ", " ", "#", " ", "c">>
sepPadded == <<" ", "|", " ">>
sepBare == <<"|">>
pad == <<" ", " ">>
tExtra == <<"e", "x", "t", "r", "a">>

RECURSIVE join(_, _)
join(fs, sep) ==
  IF Len(fs) = 1 THEN fs[1] ELSE fs[1] \o sep \o join(Tail(fs), sep)

\* a record line as the test data writes it: eight fields separated by " | "
Rec(date, id, dest, status, crew, dur, rate, code) ==
  join(<<date, id, dest, status, crew, dur, rate, code>>, sepPadded)

\* one item of BufRead::lines(): Ok(text) or Err
OkLine(l) == [ok |-> TRUE, text |-> l]
ErrLine == [ok |-> FALSE, text |-> <<>>]

LinePool ==
  { OkLine(Rec(d2045, idK1, tMars, tCompleted, n5, n387, r98_7, cTRX)),
    OkLine(Rec(d2046, idA1, tMARS, tCOMPLETED, n3, n900, r99_0, cSTU)),
    OkLine(Rec(d2047, idB2, tMars, tCompleted, n4, n387, r97_5, cABC)),
    OkLine(Rec(d2045, idK1, tJupiter, tCompleted, n5, n0, r98_7, cINVALID)),
    OkLine(Rec(d2045, idK1, tMars, tFailed, n5, n0, r98_7, cINVALID)),
    OkLine(Rec(d2045, idK1, tMars, tCompleted, n5, n0, r98_7, cLower)),
    OkLine(Rec(d2045, idK1, tMars, tCompleted, n5, n0, r98_7, cTRX)),
    OkLine(Rec(d2045, idK1, tMars, tCompleted, n5, n387, r98_7, cShort)),
    OkLine(Rec(d2045, idK1, tMars, tCompleted, nAbc, n387, r98_7, cTRX)),
    OkLine(join(<<d2045, idK1, tJupiter>>, sepPadded)),
    OkLine(tComment),
    OkLine(Rec(dHash, idK1, tMars, tCompleted, n5, n387, r98_7, cTRX)),
    ErrLine }

RECURSIVE SeqsUpTo(_, _)
SeqsUpTo(S, n) ==
  IF n = 0 THEN {<<>>}
  ELSE LET prev == SeqsUpTo(S, n - 1)
       IN  prev \cup {Append(s, x) : s \in {t \in prev : Len(t) = n - 1}, x \in S}

Inputs == SeqsUpTo(LinePool, MaxLines)

(***************************************************************************)
(* State.                                                                  *)
(***************************************************************************)
VARIABLES
  pc,            \* position in main / process_file
  input,         \* the items the line source yields, in order
  idx,           \* number of items process_file has taken from the source
  missions,      \* process_file's accepted collection
  stats,         \* process_file's Statistics
  parse_calls,   \* line numbers Mission::from_line has been called with
  ret,           \* the value process_file returned
  main_missions, \* main's missions vector
  args_top,      \* args.top once main has read it, NoTop before
  stderr,        \* the ERROR messages main has written
  printed,       \* the records handed to the output stage
  exit_code,     \* -1 while running, else the process exit status
  fn_res         \* the last direct call of a pure function and its result

vars == <<pc, input, idx, missions, stats, parse_calls, ret, main_missions,
          args_top, stderr, printed, exit_code, fn_res>>

\* Statistics::default()
StatisticsDefault ==
  [total_lines |-> 0, data_lines |-> 0, mars_missions |-> 0,
   completed_mars_missions |-> 0, valid_missions |-> 0, errors |-> 0]

NoRet == [tag |-> "none"]
NoCall == [fn |-> "none"]
NoTop == -1

\* the state when main starts on a source that yields one of the inputs of I
InitFrom(I) ==
  /\ pc = "main"
  /\ input \in I
  /\ idx = 0
  /\ missions = <<>>
  /\ stats = StatisticsDefault
  /\ parse_calls = <<>>
  /\ ret = NoRet
  /\ main_missions = <<>>
  /\ args_top = NoTop
  /\ stderr = <<>>
  /\ printed = <<>>
  /\ exit_code = -1
  /\ fn_res = NoCall

Init == InitFrom(Inputs)

(***************************************************************************)
(* main: the input file argument.                                          *)
(***************************************************************************)
ParseArgs ==
  /\ pc = "main"
  /\ \E given \in BOOLEAN :
       IF given
       THEN /\ pc' = "open"
            /\ UNCHANGED <<stderr, exit_code>>
       ELSE /\ pc' = "exit"
            /\ stderr' = Append(stderr, "no_input_file")
            /\ exit_code' = 1
  /\ UNCHANGED <<input, idx, missions, stats, parse_calls, ret, main_missions,
                 args_top, printed, fn_res>>

(***************************************************************************)
(* process_file.                                                           *)
(***************************************************************************)
\* OpenFile recording the failure to open in the counters
OpenFile_counts_error ==
  /\ pc = "open"
  /\ \E opened \in BOOLEAN :
       IF opened
       THEN /\ pc' = "loop"
            /\ missions' = <<>>
            /\ stats' = StatisticsDefault
            /\ ret' = ret
       ELSE /\ pc' = "match"
            /\ ret' = [tag |-> "Err", err |-> "Failed to open file"]
            /\ stats' = [stats EXCEPT !.errors = @ + 1]
            /\ UNCHANGED missions
  /\ idx' = 0
  /\ UNCHANGED <<input, parse_calls, main_missions, args_top, stderr,
                 printed, exit_code, fn_res>>

\* OpenFile going on with the vector and the counters it finds
OpenFile_keeps_locals ==
  /\ pc = "open"
  /\ \E opened \in BOOLEAN :
       IF opened
       THEN /\ pc' = "loop"
            /\ ret' = ret
       ELSE /\ pc' = "match"
            /\ ret' = [tag |-> "Err", err |-> "Failed to open file"]
  /\ idx' = 0
  /\ UNCHANGED <<input, missions, stats, parse_calls, main_missions,
                 args_top, stderr, printed, exit_code, fn_res>>

\* File::open and the construction of the reader (at the start of the file),
\* the vector and the counters
OpenFile ==
  /\ pc = "open"
  /\ \E opened \in BOOLEAN :
       IF opened
       THEN /\ pc' = "loop"
            /\ missions' = <<>>
            /\ stats' = StatisticsDefault
            /\ ret' = ret
       ELSE /\ pc' = "match"
            /\ ret' = [tag |-> "Err", err |-> "Failed to open file"]
            /\ UNCHANGED <<missions, stats>>
  /\ idx' = 0
  /\ UNCHANGED <<input, parse_calls, main_missions, args_top, stderr,
                 printed, exit_code, fn_res>>

\* The loop body works on r = [stats, missions, calls]: the counters, the
\* accepted collection and the line numbers handed to Mission::from_line.

\* stage_validate without the duration check
stage_validate_no_duration_check(r, mission) ==
  IF ~is_valid_security_code(mission)
  THEN [r EXCEPT !.stats.errors = @ + 1]
  ELSE [r EXCEPT !.stats.valid_missions = @ + 1,
                 !.missions = Append(@, mission)]

\* stage_validate skipping a zero duration without counting an error
stage_validate_silent_zero(r, mission) ==
  IF mission.duration = U32Zero
  THEN r
  ELSE IF ~is_valid_security_code(mission)
  THEN [r EXCEPT !.stats.errors = @ + 1]
  ELSE [r EXCEPT !.stats.valid_missions = @ + 1,
                 !.missions = Append(@, mission)]

\* stage_validate counting each violated check of a record
stage_validate_counts_each(r, mission) ==
  LET r1 == IF mission.duration = U32Zero
            THEN [r EXCEPT !.stats.errors = @ + 1] ELSE r
      r2 == IF ~is_valid_security_code(mission)
            THEN [r1 EXCEPT !.stats.errors = @ + 1] ELSE r1
  IN  IF mission.duration # U32Zero /\ is_valid_security_code(mission)
      THEN [r EXCEPT !.stats.valid_missions = @ + 1,
                     !.missions = Append(@, mission)]
      ELSE r2

\* stage_validate pushing the mission without counting it
stage_validate_push_uncounted(r, mission) ==
  IF mission.duration = U32Zero
  THEN [r EXCEPT !.stats.errors = @ + 1]
  ELSE IF ~is_valid_security_code(mission)
  THEN [r EXCEPT !.stats.errors = @ + 1]
  ELSE [r EXCEPT !.missions = Append(@, mission)]

\* the duration and security code checks, and the push
stage_validate(r, mission) ==
  IF mission.duration = U32Zero
  THEN [r EXCEPT !.stats.errors = @ + 1]
  ELSE IF ~is_valid_security_code(mission)
  THEN [r EXCEPT !.stats.errors = @ + 1]
  ELSE [r EXCEPT !.stats.valid_missions = @ + 1,
                 !.missions = Append(@, mission)]

\* stage_filter counting the mission before looking at its destination
stage_filter_counts_first(r, mission) ==
  LET r1 == [r EXCEPT !.stats.mars_missions = @ + 1]
  IN  IF ~eq_ignore_ascii_case(mission.destination, s_mars) THEN r1
      ELSE IF ~eq_ignore_ascii_case(mission.status, s_completed) THEN r1
      ELSE stage_validate([r1 EXCEPT !.stats.completed_mars_missions = @ + 1],
                          mission)

\* the destination and status filters
stage_filter(r, mission) ==
  IF ~eq_ignore_ascii_case(mission.destination, s_mars) THEN r
  ELSE
    LET r1 == [r EXCEPT !.stats.mars_missions = @ + 1]
    IN  IF ~eq_ignore_ascii_case(mission.status, s_completed) THEN r1
        ELSE stage_validate([r1 EXCEPT !.stats.completed_mars_missions = @ + 1],
                            mission)

\* the data line counter and the parse
stage_parse(r, line, line_number) ==
  LET r1 == [r EXCEPT !.stats.data_lines = @ + 1,
                      !.calls = Append(@, line_number)]
      parsed == from_line(line, line_number)
  IN  IF parsed = None
      THEN [r1 EXCEPT !.stats.errors = @ + 1]
      ELSE stage_filter(r1, Unwrap(parsed))

\* stage_comment counting the data line before the comment check
stage_comment_counts_data(r, line, line_number) ==
  IF is_comment_or_metadata(line)
  THEN [r EXCEPT !.stats.data_lines = @ + 1]
  ELSE stage_parse(r, line, line_number)

\* the comment and metadata skip
stage_comment(r, line, line_number) ==
  IF is_comment_or_metadata(line) THEN r
  ELSE stage_parse(r, line, line_number)

\* loop_body counting the line only once it has been read
loop_body_counts_after_read(r, item, line_number) ==
  IF ~item.ok
  THEN [r EXCEPT !.stats.errors = @ + 1]
  ELSE stage_comment([r EXCEPT !.stats.total_lines = @ + 1], item.text, line_number)

\* one iteration of the loop on `item`, the line_number-th item of the source
loop_body(r, item, line_number) ==
  LET r1 == [r EXCEPT !.stats.total_lines = @ + 1]
  IN  IF ~item.ok
      THEN [r1 EXCEPT !.stats.errors = @ + 1]
      ELSE stage_comment(r1, item.text, line_number)

\* one iteration of `for (idx, line_result) in reader.lines().enumerate()`
ProcessLine ==
  /\ pc = "loop"
  /\ idx < Len(input)
  /\ LET r == loop_body([stats |-> stats, missions |-> missions,
                         calls |-> parse_calls],
                        input[idx + 1], idx + 1)
     IN  /\ stats' = r.stats
         /\ missions' = r.missions
         /\ parse_calls' = r.calls
  /\ idx' = idx + 1
  /\ UNCHANGED <<pc, input, ret, main_missions, args_top, stderr, printed,
                 exit_code, fn_res>>

\* the source is exhausted: Ok((missions, stats))
ReturnOk ==
  /\ pc = "loop"
  /\ idx = Len(input)
  /\ ret' = [tag |-> "Ok", missions |-> missions, stats |-> stats]
  /\ pc' = "match"
  /\ UNCHANGED <<input, idx, missions, stats, parse_calls, main_missions,
                 args_top, stderr, printed, exit_code, fn_res>>

(***************************************************************************)
(* main: the consumer of process_file's result.                            *)
(***************************************************************************)
MatchResult ==
  /\ pc = "match"
  /\ IF ret.tag = "Err"
     THEN /\ stderr' = Append(stderr, "open_failed")
          /\ exit_code' = 1
          /\ pc' = "exit"
          /\ UNCHANGED main_missions
     ELSE /\ main_missions' = ret.missions
          /\ pc' = "check"
          /\ UNCHANGED <<stderr, exit_code>>
  /\ UNCHANGED <<input, idx, missions, stats, parse_calls, ret, args_top,
                 printed, fn_res>>

\* diagnostic looking at mars_missions before data_lines
diagnostic_mars_first(st) ==
  IF st.mars_missions = 0 THEN "no_mars_missions"
  ELSE IF st.data_lines = 0 THEN "no_data_lines"
  ELSE IF st.completed_mars_missions = 0 THEN "none_completed"
  ELSE "all_invalid"

\* the diagnostic main adds when no mission was accepted
diagnostic(st) ==
  IF st.data_lines = 0 THEN "no_data_lines"
  ELSE IF st.mars_missions = 0 THEN "no_mars_missions"
  ELSE IF st.completed_mars_missions = 0 THEN "none_completed"
  ELSE "all_invalid"

CheckEmpty ==
  /\ pc = "check"
  /\ IF main_missions = <<>>
     THEN /\ stderr' = stderr \o <<"no_valid_missions", diagnostic(ret.stats)>>
          /\ exit_code' = 1
          /\ pc' = "exit"
     ELSE /\ pc' = "rank"
          /\ UNCHANGED <<stderr, exit_code>>
  /\ UNCHANGED <<input, idx, missions, stats, parse_calls, ret, main_missions,
                 args_top, printed, fn_res>>

\* the comparator of missions.sort_by: |a, b| b.duration.cmp(&a.duration)
by_duration_desc(a, b) == u32_cmp(b.duration, a.duration)

\* insert_stable placing x before the elements that compare Equal to it
RECURSIVE insert_unstable(_, _)
insert_unstable(t, x) ==
  IF t = <<>> THEN <<x>>
  ELSE IF by_duration_desc(t[Len(t)], x) < 0 THEN Append(t, x)
  ELSE Append(insert_unstable(SubSeq(t, 1, Len(t) - 1), x), t[Len(t)])

\* insertion of x behind every element that does not compare Greater than it
RECURSIVE insert_stable(_, _)
insert_stable(t, x) ==
  IF t = <<>> THEN <<x>>
  ELSE IF by_duration_desc(t[Len(t)], x) <= 0 THEN Append(t, x)
  ELSE Append(insert_stable(SubSeq(t, 1, Len(t) - 1), x), t[Len(t)])

\* slice::sort_by, a stable sort
RECURSIVE sort_by(_)
sort_by(s) ==
  IF s = <<>> THEN <<>>
  ELSE insert_stable(sort_by(SubSeq(s, 1, Len(s) - 1)), s[Len(s)])

\* Vec::truncate
truncate(s, n) == IF n >= Len(s) THEN s ELSE SubSeq(s, 1, n)

min(a, b) == IF a <= b THEN a ELSE b

Rank ==
  /\ pc = "rank"
  /\ \E top \in 0..MaxTop :
       LET sorted == sort_by(main_missions)
           num_to_show == min(top, Len(sorted))
       IN  /\ main_missions' = truncate(sorted, num_to_show)
           /\ args_top' = top
  /\ pc' = "output"
  /\ UNCHANGED <<input, idx, missions, stats, parse_calls, ret, stderr,
                 printed, exit_code, fn_res>>

Output ==
  /\ pc = "output"
  /\ printed' = main_missions
  /\ exit_code' = 0
  /\ pc' = "exit"
  /\ UNCHANGED <<input, idx, missions, stats, parse_calls, ret, main_missions,
                 args_top, stderr, fn_res>>

Next ==
  \/ ParseArgs
  \/ OpenFile
  \/ ProcessLine
  \/ ReturnOk
  \/ MatchResult
  \/ CheckEmpty
  \/ Rank
  \/ Output

Spec == Init /\ [][Next]_vars

(***************************************************************************)
(* Two calls of process_file on the same source: the first result is kept  *)
(* in fn_res and the function is entered again.                            *)
(***************************************************************************)
CallAgain ==
  /\ pc = "match"
  /\ ret.tag = "Ok"
  /\ fn_res = NoCall
  /\ fn_res' = [fn |-> "process_file", out |-> ret]
  /\ ret' = NoRet
  /\ parse_calls' = <<>>
  /\ pc' = "open"
  /\ UNCHANGED <<input, idx, missions, stats, main_missions, args_top,
                 stderr, printed, exit_code>>

NextTwice == Next \/ CallAgain

SpecTwice == Init /\ [][NextTwice]_vars

\* The fair specification.  The program is sequential and every iteration of
\* the loop terminates, so the loop does not stop while the source has a line
\* left, and process_file returns once the source is exhausted.  LoopFair is
\* WF_vars(ProcessLine) with ENABLED <<ProcessLine>>_vars written out as the
\* guard of the loop.  Runs are over the inputs built from the lines with a
\* per-line failure, an accepted line and a comment.
LivePool ==
  { OkLine(Rec(d2045, idK1, tMars, tCompleted, n5, n387, r98_7, cTRX)),
    OkLine(Rec(d2045, idK1, tMars, tCompleted, n5, n0, r98_7, cTRX)),
    OkLine(Rec(d2045, idK1, tMars, tCompleted, n5, n387, r98_7, cShort)),
    OkLine(Rec(d2045, idK1, tMars, tCompleted, nAbc, n387, r98_7, cTRX)),
    OkLine(tComment),
    ErrLine }
LiveInputs == SeqsUpTo(LivePool, MaxLines)
InitLive == InitFrom(LiveInputs)
LoopGuard == pc = "loop" /\ idx < Len(input)
LoopFair == []<>(~LoopGuard) \/ []<><<ProcessLine>>_vars
FairSpec == InitLive /\ [][Next]_vars /\ LoopFair /\ WF_vars(ReturnOk)

(***************************************************************************)
(* Direct calls of the pure functions, as the unit tests make them: one    *)
(* call of one function on one text.                                       *)
(***************************************************************************)
FnDates == {d2045, dHash, dSystem, <<>>}
FnCrews == {n5, nAbc, nPlus5, nOverU32, <<>>}
FnDurations == {n387, n0, nMaxU32, nOverU32, nMinus1}
FnRates == {r98_7, rInf, rNaN, r1e3, rDot5, r5Dot, rDot, rNeg, rE, nAbc}
FnCodes == {cTRX, cLower, cShort, cLong, cMid, cFirst, cNoDash, cLetters, cINVALID}
cgTRX == <<"T", "R", "X">>
cgTrx == <<"t", "r", "x">>
cgTX == <<"T", "X">>
cgTRXX == <<"T", "R", "X", "X">>
cgT1X == <<"T", "1", "X">>
cg842 == <<"8", "4", "2">>
cg84 == <<"8", "4">>
cg8422 == <<"8", "4", "2", "2">>
cgABC == <<"A", "B", "C">>
cg8a2 == <<"8", "a", "2">>
cgYHG == <<"Y", "H", "G">>
cgYhg == <<"y", "h", "g">>
cgYH == <<"Y", "H">>
cgY9G == <<"Y", "9", "G">>
cgHyphen == <<"-">>
cgUnderscore == <<"_">>
cgX == <<"X">>
cgSpace == <<" ">>
cgNewline == <<"\n">>

\* security codes put together from three groups, two separators and
\* optional characters before and after
FnBuiltCodes ==
  {pre \o g1 \o sep \o g2 \o sep \o g3 \o post :
     pre \in {<<>>, cgX, cgSpace},
     g1 \in {cgTRX, cgTrx, cgTX, cgTRXX, cgT1X},
     sep \in {cgHyphen, cgUnderscore, <<>>},
     g2 \in {cg842, cg84, cg8422, cgABC, cg8a2},
     g3 \in {cgYHG, cgYhg, cgYH, cgY9G},
     post \in {<<>>, cgX, cgNewline}}

FnComments == {<<>>, tBlank, tComment, tIndentComment, tSystemLine,
               tConfigLine, tChecksumLine}

\* the first k of nine fields
FnFields(date, crew, dur, rate, k) ==
  SubSeq(<<date, idK1, tMars, tCompleted, crew, dur, rate, cTRX, tExtra>>, 1, k)

\* lines of 7, 8 and 9 fields, bare or padded with whitespace
FnRecordLines ==
  {join(FnFields(date, crew, dur, rate, k), sepBare) :
     date \in FnDates, crew \in FnCrews, dur \in FnDurations,
     rate \in FnRates, k \in 7..9}
  \cup
  {pad \o join(FnFields(date, crew, dur, rate, k), sepPadded) \o pad :
     date \in FnDates, crew \in FnCrews, dur \in FnDurations,
     rate \in FnRates, k \in 7..9}

FnTexts == FnRecordLines \cup FnComments \cup FnCodes \cup FnBuiltCodes

\* the Mission the unit tests build around a security code
TestMission(code) ==
  [date |-> d2045, mission_id |-> idK1, destination |-> tMars,
   status |-> tCompleted, crew_size |-> <<0, 5>>, duration |-> <<0, 387>>,
   success_rate |-> [kind |-> "finite", neg |-> FALSE, num |-> <<987, -1>>],
   security_code |-> code, line_number |-> 1]

InitFn ==
  /\ pc = "call"
  /\ input \in {<<OkLine(t)>> : t \in FnTexts}
  /\ idx = 0
  /\ missions = <<>>
  /\ stats = StatisticsDefault
  /\ parse_calls = <<>>
  /\ ret = NoRet
  /\ main_missions = <<>>
  /\ args_top = NoTop
  /\ stderr = <<>>
  /\ printed = <<>>
  /\ exit_code = -1
  /\ fn_res = NoCall

FnFrame ==
  UNCHANGED <<input, idx, missions, stats, parse_calls, ret, main_missions,
              args_top, stderr, printed, exit_code>>

Call_from_line ==
  /\ pc = "call"
  /\ \E n \in 1..MaxLines :
       fn_res' = [fn |-> "from_line", line_number |-> n,
                  out |-> from_line(input[1].text, n)]
  /\ pc' = "called"
  /\ FnFrame

Call_is_comment_or_metadata ==
  /\ pc = "call"
  /\ fn_res' = [fn |-> "is_comment_or_metadata",
                out |-> is_comment_or_metadata(input[1].text)]
  /\ pc' = "called"
  /\ FnFrame

Call_is_valid_security_code ==
  /\ pc = "call"
  /\ fn_res' = [fn |-> "is_valid_security_code",
                arg |-> TestMission(input[1].text),
                out |-> is_valid_security_code(TestMission(input[1].text))]
  /\ pc' = "called"
  /\ FnFrame

NextFn ==
  \/ Call_from_line
  \/ Call_is_comment_or_metadata
  \/ Call_is_valid_security_code

SpecFn == InitFn /\ [][NextFn]_vars

(***************************************************************************)
(* Properties.  The classification of a line is restated here from the     *)
(* text of the line, independently of the loop body above.                 *)
(***************************************************************************)
\* index of the first character that is not whitespace, 0 if there is none
FirstVisible(s) ==
  IF \A i \in 1..Len(s) : IsWhitespace(s[i]) THEN 0
  ELSE CHOOSE i \in 1..Len(s) :
         ~IsWhitespace(s[i]) /\ \A j \in 1..(i - 1) : IsWhitespace(s[j])

\* p occurs in s at index i
OccursAt(s, i, p) ==
  /\ i + Len(p) - 1 <= Len(s)
  /\ \A k \in 1..Len(p) : s[i + k - 1] = p[k]

\* empty after trimming, or starting after trimming with one of the prefixes
CommentText(s) ==
  \/ FirstVisible(s) = 0
  \/ \E p \in {p_hash, p_SYSTEM, p_CONFIG, p_CHECKSUM} :
       OccursAt(s, FirstVisible(s), p)

\* the classification of each line of the pool
CommentItems == {item \in LinePool : item.ok /\ CommentText(item.text)}
DataItems == {item \in LinePool : item.ok /\ ~CommentText(item.text)}
ParsedRecord == [item \in {i \in DataItems : from_line(i.text, 0) # None}
                   |-> Unwrap(from_line(item.text, 0))]
ParsingItems == DOMAIN ParsedRecord
MarsItems == {item \in ParsingItems : lower(ParsedRecord[item].destination) = s_mars}
CompletedItems == {item \in ParsingItems : lower(ParsedRecord[item].status) = s_completed}
PositiveItems ==
  {item \in ParsingItems : u32_cmp(ParsedRecord[item].duration, U32Zero) = 1}
GoodCodeItems == {item \in ParsingItems : is_valid_security_code(ParsedRecord[item])}

CommentItem(item) == item \in CommentItems
DataItem(item) == item \in DataItems
Parses(item) == item \in ParsingItems
\* the record of a parsing line that is the n-th of the source
RecordOf(item, n) == [ParsedRecord[item] EXCEPT !.line_number = n]
IsMars(item) == item \in MarsItems
IsCompleted(item) == item \in CompletedItems
PositiveDuration(item) == item \in PositiveItems
GoodCode(item) == item \in GoodCodeItems

\* the line passes every stage
Qualifies(item) ==
  IsMars(item) /\ IsCompleted(item) /\ PositiveDuration(item) /\ GoodCode(item)

\* the line is rejected with an error
Rejected(item) ==
  \/ ~item.ok
  \/ DataItem(item) /\ ~Parses(item)
  \/ IsMars(item) /\ IsCompleted(item) /\ ~PositiveDuration(item)
  \/ IsMars(item) /\ IsCompleted(item) /\ PositiveDuration(item) /\ ~GoodCode(item)

\* the records of the qualifying lines among the first k, in line order
RECURSIVE ExpectedAccepted(_)
ExpectedAccepted(k) ==
  IF k = 0 THEN <<>>
  ELSE IF Qualifies(input[k])
       THEN Append(ExpectedAccepted(k - 1), RecordOf(input[k], k))
       ELSE ExpectedAccepted(k - 1)

IsPrefix(s, t) == Len(s) <= Len(t) /\ SubSeq(t, 1, Len(s)) = s

\* a step of the loop that consumes one item of the source
LineStep == pc = "loop" /\ idx' = idx + 1

\* C1: the accepted collection is, in line order, exactly the records of the
\* lines that are readable, are not comment/metadata, parse, have destination
\* Mars and status Completed ignoring case, a positive duration and a valid
\* security code; the returned collection is the one for the whole input, and
\* a step never reorders or drops an accepted record.
C1_AcceptedIsFilteredInput ==
  /\ [](/\ missions = ExpectedAccepted(idx)
        /\ ret.tag = "Ok" => ret.missions = ExpectedAccepted(Len(input)))
  /\ [][IsPrefix(missions, missions')]_vars

\* two records were accepted around a line that was not
C1_Witness ==
  /\ ret.tag = "Ok"
  /\ Len(input) = 3
  /\ ~Qualifies(input[2])
  /\ Len(ret.missions) = 2
  /\ ret.missions[1].line_number = 1
  /\ ret.missions[2].line_number = 3

\* C2: a step of the loop adds one to the error counter when the line is
\* rejected (read failure, parse failure, zero duration or invalid security
\* code on a Mars/Completed record) and nothing otherwise; no other step
\* changes the counter; a Mars/Completed record of duration 0 is not accepted.
C2_ErrorsCountRejections ==
  [][/\ stats'.errors =
          stats.errors + (IF LineStep /\ Rejected(input[idx + 1]) THEN 1 ELSE 0)
     /\ (/\ LineStep
         /\ IsMars(input[idx + 1]) /\ IsCompleted(input[idx + 1])
         /\ ~PositiveDuration(input[idx + 1]))
        => missions' = missions /\ stats'.errors = stats.errors + 1]_vars

\* the run ended after a Mars/Completed record of duration 0, a read failure
\* and an accepted record: two errors
C2_Witness ==
  /\ ret.tag = "Ok"
  /\ Len(input) = 3
  /\ \E i \in 1..3 :
       IsMars(input[i]) /\ IsCompleted(input[i]) /\ ~PositiveDuration(input[i])
  /\ \E i \in 1..3 : ~input[i].ok
  /\ \E i \in 1..3 : Qualifies(input[i])
  /\ ret.stats.errors = 2

\* the counters other than total_lines
Others(st) ==
  <<st.data_lines, st.mars_missions, st.completed_mars_missions,
    st.valid_missions, st.errors>>

\* C3: processing a comment/metadata line adds one to total_lines and leaves
\* the other counters and the accepted collection unchanged, and the line is
\* not passed to Mission::from_line.
C3_CommentLineOnlyCounted ==
  [][(LineStep /\ CommentItem(input[idx + 1]))
     => /\ stats'.total_lines = stats.total_lines + 1
        /\ Others(stats') = Others(stats)
        /\ missions' = missions
        /\ parse_calls' = parse_calls]_vars

\* a comment line that would not parse as a record has been processed, and
\* the parser was not called
C3_Witness ==
  /\ pc = "loop"
  /\ idx = 1
  /\ CommentItem(input[1])
  /\ from_line(input[1].text, 1) = None
  /\ stats.total_lines = 1
  /\ parse_calls = <<>>

\* the data lines whose third field, trimmed, is not Mars ignoring case, or
\* that have no third field
NotMarsItems ==
  {item \in DataItems :
     LET parts == split(item.text, Delim)
     IN  ~(Len(parts) >= 3 /\ lower(trim(parts[3])) = s_mars)}
NotMars(item) == item \in NotMarsItems

\* C4: a data line whose destination is not Mars (ignoring case) leaves
\* mars_missions, completed_mars_missions, valid_missions and the accepted
\* collection unchanged; when it parses it adds one to total_lines and
\* data_lines and changes nothing else.
C4_NonMarsNeverCounted ==
  [][(LineStep /\ NotMars(input[idx + 1]))
     => /\ stats'.mars_missions = stats.mars_missions
        /\ stats'.completed_mars_missions = stats.completed_mars_missions
        /\ stats'.valid_missions = stats.valid_missions
        /\ missions' = missions
        /\ Parses(input[idx + 1])
           => stats' = [stats EXCEPT !.total_lines = @ + 1,
                                     !.data_lines = @ + 1]]_vars

\* a Jupiter record with a zero duration and an invalid code was processed
\* after an accepted record
C4_Witness ==
  /\ pc = "loop"
  /\ idx = 2
  /\ Qualifies(input[1])
  /\ NotMars(input[2]) /\ Parses(input[2])
  /\ ~PositiveDuration(input[2]) /\ ~GoodCode(input[2])
  /\ stats.data_lines = 2
  /\ stats.mars_missions = 1
  /\ stats.errors = 0

\* a >= b on u32
u32_ge(a, b) == a[1] > b[1] \/ (a[1] = b[1] /\ a[2] >= b[2])

\* main has ranked the accepted collection
Ranked == args_top # NoTop

\* C5: the ranking of the accepted collection with parameter N has
\* min(N, number of accepted records) records, all of them accepted, in
\* non-increasing order of duration, records of equal duration in line order,
\* each of a duration >= that of every record left out; with N = 1 it is the
\* earliest record of maximal duration; the output stage gets this ranking.
C5_RankingIsStableTopN ==
  Ranked =>
    LET acc == ret.missions
        out == main_missions
    IN  /\ acc # <<>>
        /\ Len(out) = (IF args_top <= Len(acc) THEN args_top ELSE Len(acc))
        /\ \A i \in 1..Len(out) : \E k \in 1..Len(acc) : acc[k] = out[i]
        /\ \A i, j \in 1..Len(out) :
             i < j => /\ u32_ge(out[i].duration, out[j].duration)
                      /\ out[i].duration = out[j].duration
                         => out[i].line_number < out[j].line_number
        /\ \A k \in 1..Len(acc) :
             (\A i \in 1..Len(out) : out[i] # acc[k])
             => \A i \in 1..Len(out) : u32_ge(out[i].duration, acc[k].duration)
        /\ args_top = 1 =>
             \E k \in 1..Len(acc) :
               /\ out = <<acc[k]>>
               /\ \A h \in 1..Len(acc) : u32_ge(acc[k].duration, acc[h].duration)
               /\ \A h \in 1..(k - 1) : acc[h].duration # acc[k].duration
        /\ exit_code = 0 => printed = out

\* three accepted records, the longest on line 2 and a tie on lines 1 and 3,
\* ranked with N = 3
C5_Witness ==
  /\ pc = "output"
  /\ args_top = 3
  /\ Len(ret.missions) = 3
  /\ Len(main_missions) = 3
  /\ main_missions[1].line_number = 2
  /\ main_missions[2].line_number = 1
  /\ main_missions[3].line_number = 3
  /\ main_missions[2].duration = main_missions[3].duration

\* C6: once the source is open the run reaches the return of Ok with
\* total_lines equal to the number of lines of the source, whatever per-line
\* failures occur; every step of the loop takes exactly the next line.
C6_RunCompletes ==
  /\ (pc = "loop") ~> (/\ ret.tag = "Ok"
                       /\ idx = Len(input)
                       /\ ret.stats.total_lines = Len(input))
  /\ [](pc = "loop" => stats.total_lines = idx)
  /\ [][pc = "loop" /\ pc' = "loop"
        => idx' = idx + 1 /\ parse_calls' \in {parse_calls, Append(parse_calls, idx')}]_vars

\* a run over a read failure, a parse failure and a zero duration returned Ok
C6_Witness ==
  /\ ret.tag = "Ok"
  /\ Len(input) = 3
  /\ ~input[1].ok
  /\ DataItem(input[2]) /\ ~Parses(input[2])
  /\ IsMars(input[3]) /\ IsCompleted(input[3]) /\ ~PositiveDuration(input[3])
  /\ ret.stats.total_lines = 3
  /\ ret.stats.errors = 3

DiagnosticVariants ==
  {"no_data_lines", "no_mars_missions", "none_completed", "all_invalid"}
\* the diagnostic variants written so far, in order
Reported == SelectSeq(stderr, LAMBDA m : m \in DiagnosticVariants)

\* C7: a run that ends with an empty accepted collection exits with failure
\* and reports exactly one variant: 'no data lines' if data_lines = 0, else
\* 'no Mars missions' if mars_missions = 0, else 'none completed' if
\* completed_mars_missions = 0, else 'all had invalid data'; an input of
\* comment/metadata lines only gives data_lines = 0, no accepted record and
\* 'no data lines'; no variant is reported otherwise.
C7_OneDiagnosticByPriority ==
  /\ (pc = "exit" /\ ret.tag = "Ok" /\ ret.missions = <<>>)
     => /\ exit_code = 1
        /\ printed = <<>>
        /\ Len(Reported) = 1
        /\ ret.stats.data_lines = 0 => Reported[1] = "no_data_lines"
        /\ (ret.stats.data_lines > 0 /\ ret.stats.mars_missions = 0)
           => Reported[1] = "no_mars_missions"
        /\ (/\ ret.stats.data_lines > 0 /\ ret.stats.mars_missions > 0
            /\ ret.stats.completed_mars_missions = 0)
           => Reported[1] = "none_completed"
        /\ (/\ ret.stats.data_lines > 0 /\ ret.stats.mars_missions > 0
            /\ ret.stats.completed_mars_missions > 0)
           => Reported[1] = "all_invalid"
        /\ (\A i \in 1..Len(input) : CommentItem(input[i]))
           => ret.stats.data_lines = 0
  /\ (ret.tag = "Ok" /\ \A i \in 1..Len(input) : CommentItem(input[i]))
     => ret.missions = <<>>
  /\ ~(ret.tag = "Ok" /\ ret.missions = <<>>) => Reported = <<>>

\* completed Mars missions were found but none was valid
C7_Witness ==
  /\ pc = "exit"
  /\ ret.tag = "Ok"
  /\ ret.missions = <<>>
  /\ ret.stats.completed_mars_missions = 2
  /\ ret.stats.errors = 2
  /\ stderr = <<"no_valid_missions", "all_invalid">>
  /\ exit_code = 1

\* C8: when the source cannot be opened process_file returns the error
\* before any line is taken: no counter is incremented, nothing is accepted,
\* and main exits with failure without the check for an empty collection,
\* the ranking or the output stage.
C8_OpenFailureAborts ==
  ret.tag = "Err"
  => /\ idx = 0
     /\ stats = StatisticsDefault
     /\ missions = <<>>
     /\ parse_calls = <<>>
     /\ pc \in {"match", "exit"}
     /\ main_missions = <<>>
     /\ args_top = NoTop
     /\ printed = <<>>
     /\ Reported = <<>>
     /\ pc = "exit" => exit_code = 1 /\ stderr = <<"open_failed">>

\* main exited on a source of three lines that could not be opened
C8_Witness ==
  /\ ret.tag = "Err"
  /\ pc = "exit"
  /\ Len(input) = 3
  /\ exit_code = 1

(***************************************************************************)
(* The fields of a line, located by the positions of the delimiter.        *)
(***************************************************************************)
DelimPositions(s) == {i \in 1..Len(s) : s[i] = Delim}
FieldCount(s) == Cardinality(DelimPositions(s)) + 1
\* position of the k-th delimiter; 0 for k = 0, Len(s) + 1 past the last one
DelimAt(s, k) ==
  IF k = 0 THEN 0
  ELSE IF k > Cardinality(DelimPositions(s)) THEN Len(s) + 1
  ELSE CHOOSE p \in DelimPositions(s) :
         Cardinality({q \in DelimPositions(s) : q < p}) = k - 1
\* index of the last character that is not whitespace, 0 if there is none
LastVisible(s) ==
  IF \A i \in 1..Len(s) : IsWhitespace(s[i]) THEN 0
  ELSE CHOOSE i \in 1..Len(s) :
         ~IsWhitespace(s[i]) /\ \A j \in (i + 1)..Len(s) : IsWhitespace(s[j])
Stripped(s) ==
  IF FirstVisible(s) = 0 THEN <<>> ELSE SubSeq(s, FirstVisible(s), LastVisible(s))
\* the k-th field of the line without its surrounding whitespace
Field(s, k) == Stripped(SubSeq(s, DelimAt(s, k - 1) + 1, DelimAt(s, k) - 1))

\* an optional '+' and at least one digit
NaturalText(s) ==
  LET ds == IF s # <<>> /\ s[1] = "+" THEN Tail(s) ELSE s
  IN  ds # <<>> /\ \A i \in 1..Len(ds) : IsDigit(ds[i])
\* the digits of u32::MAX
U32MaxDigits == nMaxU32
\* a natural number text whose value is at most u32::MAX
U32Text(s) ==
  /\ NaturalText(s)
  /\ LET ds == IF s[1] = "+" THEN Tail(s) ELSE s
         nz == {i \in 1..Len(ds) : ds[i] # "0"}
         sig == IF nz = {} THEN <<>>
                ELSE SubSeq(ds, CHOOSE i \in nz : \A j \in nz : i <= j, Len(ds))
     IN  \/ Len(sig) < Len(U32MaxDigits)
         \/ /\ Len(sig) = Len(U32MaxDigits)
            /\ \/ sig = U32MaxDigits
               \/ \E i \in 1..Len(sig) :
                    /\ DigitVal(sig[i]) < DigitVal(U32MaxDigits[i])
                    /\ \A j \in 1..(i - 1) : sig[j] = U32MaxDigits[j]
FloatText(s) == parse_f64(s) # None

\* eight fields exactly, the crew size, duration and success rate numeric
WellFormedRecordLine(s) ==
  /\ FieldCount(s) = 8
  /\ U32Text(Field(s, 5))
  /\ U32Text(Field(s, 6))
  /\ FloatText(Field(s, 7))

\* the first field starts with one of the comment/metadata prefixes
PrefixedDate(s) ==
  \E p \in {p_hash, p_SYSTEM, p_CONFIG, p_CHECKSUM} : OccursAt(Field(s, 1), 1, p)

CalledComment == fn_res.fn = "is_comment_or_metadata"
CalledFromLine == fn_res.fn = "from_line"
Arg == input[1].text

\* C9 as stated: is_comment_or_metadata is true for an empty or
\* whitespace-only string and for a string that starts, after trimming, with
\* '#', 'SYSTEM:', 'CONFIG:' or 'CHECKSUM:', and false for every well-formed
\* record line.
C9_Original ==
  CalledComment =>
    /\ CommentText(Arg) => fn_res.out
    /\ WellFormedRecordLine(Arg) => ~fn_res.out

\* C9, amended: is_comment_or_metadata is true for an empty or
\* whitespace-only string and for a string that starts, after trimming, with
\* one of the four prefixes, and false for every well-formed record line
\* whose first (date) field does not start with one of the four prefixes.
C9_CommentDetector ==
  CalledComment =>
    /\ CommentText(Arg) => fn_res.out
    /\ (WellFormedRecordLine(Arg) /\ ~PrefixedDate(Arg)) => ~fn_res.out

\* the detector was called on a well-formed record line padded with
\* whitespace, and on no comment: it returned false
C9_Witness ==
  /\ CalledComment
  /\ WellFormedRecordLine(Arg)
  /\ ~PrefixedDate(Arg)
  /\ IsWhitespace(Arg[1])
  /\ fn_res.out = FALSE

\* the fields of the record are the stripped fields of the line, the numbers
\* parsed, and the line number the one given
FieldsMatch(m, s, n) ==
  /\ m.date = Field(s, 1)
  /\ m.mission_id = Field(s, 2)
  /\ m.destination = Field(s, 3)
  /\ m.status = Field(s, 4)
  /\ Some(m.crew_size) = parse_u32(Field(s, 5))
  /\ Some(m.duration) = parse_u32(Field(s, 6))
  /\ Some(m.success_rate) = parse_f64(Field(s, 7))
  /\ m.security_code = Field(s, 8)
  /\ m.line_number = n
  /\ DOMAIN m = {"date", "mission_id", "destination", "status", "crew_size",
                 "duration", "success_rate", "security_code", "line_number"}

\* C10 as stated: from_line returns a record if and only if the line has at
\* least 8 fields and fields 5, 6 and 7, trimmed, are a non-negative integer,
\* a non-negative integer and a floating-point number; the record's fields are
\* the trimmed first 8 fields and the given line number.
C10_Original ==
  CalledFromLine =>
    /\ fn_res.out # None
       <=> /\ FieldCount(Arg) >= 8
           /\ NaturalText(Field(Arg, 5))
           /\ NaturalText(Field(Arg, 6))
           /\ FloatText(Field(Arg, 7))
    /\ fn_res.out # None
       => FieldsMatch(Unwrap(fn_res.out), Arg, fn_res.line_number)

\* C10, amended: from_line returns a record if and only if the line has at
\* least 8 fields and fields 5, 6 and 7, trimmed, are a non-negative integer
\* of at most 4294967295 (u32), another one, and a floating-point number; the
\* record's fields are the trimmed first 8 fields and the given line number,
\* fields beyond the 8th have no effect, and no record is returned otherwise.
C10_FromLine ==
  CalledFromLine =>
    /\ fn_res.out # None
       <=> /\ FieldCount(Arg) >= 8
           /\ U32Text(Field(Arg, 5))
           /\ U32Text(Field(Arg, 6))
           /\ FloatText(Field(Arg, 7))
    /\ fn_res.out # None
       => /\ Len(fn_res.out) = 1
          /\ FieldsMatch(Unwrap(fn_res.out), Arg, fn_res.line_number)

\* a padded line of nine fields with the largest duration was parsed as the
\* second line
C10_Witness ==
  /\ CalledFromLine
  /\ fn_res.line_number = 2
  /\ FieldCount(Arg) = 9
  /\ IsWhitespace(Arg[1])
  /\ Field(Arg, 6) = U32MaxDigits
  /\ fn_res.out # None
  /\ Unwrap(fn_res.out).duration = <<65535, 65535>>
  /\ Unwrap(fn_res.out).security_code = cTRX

CalledValidCode == fn_res.fn = "is_valid_security_code"

\* the positions of the text that hold an uppercase letter, a digit, a hyphen
UpperPositions(s) == {i \in 1..Len(s) : \E k \in 1..26 : s[i] = UpperAZ[k]}
DigitPositions(s) == {i \in 1..Len(s) : \E k \in 1..10 : s[i] = Digits09[k]}
HyphenPositions(s) == {i \in 1..Len(s) : s[i] = "-"}

\* three uppercase letters, a hyphen, three digits, a hyphen, three uppercase
\* letters, and nothing else
CodeShape(s) ==
  /\ Len(s) = 11
  /\ UpperPositions(s) = {1, 2, 3, 9, 10, 11}
  /\ DigitPositions(s) = {5, 6, 7}
  /\ HyphenPositions(s) = {4, 8}

\* C11: is_valid_security_code is true exactly for the codes that are, over
\* the whole string, three uppercase ASCII letters, a hyphen, three ASCII
\* digits, a hyphen and three uppercase ASCII letters, false for every other
\* string, and the record it was called on is the one it was given.
C11_SecurityCodeGrammar ==
  CalledValidCode =>
    /\ fn_res.out <=> CodeShape(Arg)
    /\ fn_res.arg = TestMission(Arg)
    /\ fn_res.arg.security_code = Arg

\* a valid code followed by one more character was rejected
C11_Witness ==
  /\ CalledValidCode
  /\ Len(Arg) = 12
  /\ CodeShape(SubSeq(Arg, 1, 11))
  /\ fn_res.out = FALSE

\* the second call of process_file has returned Ok
SecondReturned ==
  /\ fn_res.fn = "process_file"
  /\ pc = "match"
  /\ ret.tag = "Ok"

\* C12: two runs of the pipeline over the same input return the same
\* counters and the same accepted sequence; nothing of the first run is left
\* in the second.
C12_SecondRunSameResult ==
  SecondReturned =>
    /\ ret.stats = fn_res.out.stats
    /\ ret.missions = fn_res.out.missions

\* a second run over an input with an accepted record and a rejected line
C12_Witness ==
  /\ SecondReturned
  /\ Len(ret.missions) > 0
  /\ ret.stats.errors > 0

CounterNames ==
  {"total_lines", "data_lines", "mars_missions", "completed_mars_missions",
   "valid_missions", "errors"}

\* each stage's counter is at most the counter of the stage before it
CounterChain(st) ==
  /\ st.valid_missions <= st.completed_mars_missions
  /\ st.completed_mars_missions <= st.mars_missions
  /\ st.mars_missions <= st.data_lines
  /\ st.data_lines <= st.total_lines

\* C13: in every reachable state valid_missions <= completed_mars_missions
\* <= mars_missions <= data_lines <= total_lines and the accepted collection
\* has valid_missions elements; no step decreases a counter.
C13_CountersOrdered ==
  /\ [](CounterChain(stats) /\ Len(missions) = stats.valid_missions)
  /\ [][\A f \in CounterNames : stats'[f] >= stats[f]]_vars

\* three items consumed: a comment, an accepted record and a completed Mars
\* record that was rejected
C13_Witness ==
  /\ pc = "loop"
  /\ stats.total_lines = 3
  /\ stats.data_lines = 2
  /\ stats.completed_mars_missions = 2
  /\ stats.valid_missions = 1
  /\ Len(missions) = 1

\* among the first k items: the read failures, and the data lines that
\* failed to parse
ReadFailures(k) == Cardinality({i \in 1..k : ~input[i].ok})
ParseFailures(k) ==
  Cardinality({i \in 1..k : DataItem(input[i]) /\ ~Parses(input[i])})

\* a completed Mars record with a zero duration and a malformed code
ZeroAndBadCode(item) ==
  /\ IsMars(item) /\ IsCompleted(item)
  /\ ~PositiveDuration(item) /\ ~GoodCode(item)

\* C14: in every reachable state errors is the number of lines that failed
\* to read, plus the number of data lines that failed to parse, plus
\* completed_mars_missions - valid_missions, and errors + valid_missions is
\* at most total_lines; a completed Mars record with both a zero duration and
\* a malformed code adds exactly one to errors.
C14_ErrorsIdentity ==
  /\ [](/\ stats.errors = ReadFailures(idx) + ParseFailures(idx)
                          + (stats.completed_mars_missions - stats.valid_missions)
        /\ stats.errors + stats.valid_missions <= stats.total_lines)
  /\ [][(LineStep /\ ZeroAndBadCode(input[idx + 1]))
        => stats'.errors = stats.errors + 1]_vars

\* consumed: a read failure, a data line that does not parse, and a completed
\* Mars record with zero duration and malformed code; three errors
C14_Witness ==
  /\ pc = "loop"
  /\ idx = 3
  /\ ReadFailures(3) = 1
  /\ ParseFailures(3) = 1
  /\ \E i \in 1..3 : ZeroAndBadCode(input[i])
  /\ stats.errors = 3

\* C15: the staged checks of process_file and is_completed_mars_mission
\* agree on every successfully parsed record: the step that consumes the
\* record appends it to the accepted collection if and only if the predicate
\* is true of it, and every accepted record satisfies the predicate.
C15_FilterAgreesWithPredicate ==
  /\ [](\A i \in 1..Len(missions) : is_completed_mars_mission(missions[i]))
  /\ [][(LineStep /\ Parses(input[idx + 1]))
        => LET rec == RecordOf(input[idx + 1], idx + 1)
           IN  IF is_completed_mars_mission(rec)
               THEN missions' = Append(missions, rec)
               ELSE missions' = missions]_vars

\* consumed: a record the predicate holds of, now the only accepted one, a
\* completed Mars record of duration 0 and one with a malformed code
C15_Witness ==
  /\ pc = "loop"
  /\ idx = 3
  /\ \A i \in 1..3 : Parses(input[i]) /\ IsMars(input[i]) /\ IsCompleted(input[i])
  /\ \E i \in 1..3 : ~PositiveDuration(input[i]) /\ GoodCode(input[i])
  /\ \E i \in 1..3 : PositiveDuration(input[i]) /\ ~GoodCode(input[i])
  /\ \E i \in 1..3 :
       /\ is_completed_mars_mission(RecordOf(input[i], i))
       /\ missions = <<RecordOf(input[i], i)>>

====
